---- MODULE Spec2Model ----
(***************************************************************************)
(* EvidenceCheck: video <-> text consistency checker.                      *)
(*                                                                         *)
(*   video_analyzer.analyze_video   -> Spec        (frame loop, handles)   *)
(*   scoring.score_consistency      -> ScoreSpec   (penalties, details)    *)
(*   text_parser.extract_claims     -> ExtractSpec (regex grammar)         *)
(*                                                                         *)
(* A text is a sequence of whitespace-separated tokens (strings).  A       *)
(* detector confidence is an integer number of hundredths (0.5 is 50).     *)
(* A frame is identified by its 0-based index in the frame source.         *)
(***************************************************************************)
EXTENDS Integers, Sequences, FiniteSets, TLC

VARIABLES
    \* ---- analyze_video ----
    pc,                \* position in analyze_video
    exception,         \* the exception that left analyze_video, or "none"
    frame_rate,        \* parameter frame_rate
    fps,               \* cap.get(CAP_PROP_FPS) as <<numerator, denominator>>
    open_handles,      \* VideoCapture handles opened and not yet released
    frame_interval,
    max_people,
    max_cars,
    weapon_present,
    annotated_frames,
    frame_count,
    processed_count,
    frames_to_save,
    video_stats,       \* the returned dict (also score_consistency's input)
    detector_calls,    \* history: frame indices the model was run on in the loop
    fallback_calls,    \* history: number of detector runs in the fallback branch
    fallback_report,   \* history: what the detector reported in the fallback branch
    sampled,           \* history: what the detector reported per sampled frame
    \* ---- extract_claims / score_consistency ----
    text,              \* extract_claims' input, a sequence of tokens
    epc,               \* position in extract_claims
    claims,            \* the claims dict
    spc,               \* position in score_consistency
    score,
    details

videoVars == <<pc, exception, frame_rate, fps, open_handles, frame_interval,
               max_people, max_cars, weapon_present, annotated_frames,
               frame_count, processed_count, frames_to_save,
               detector_calls, fallback_calls, fallback_report, sampled>>
textVars  == <<text, epc>>
scoreVars == <<spc, score, details>>
vars == <<videoVars, video_stats, textVars, claims, scoreVars>>

\* An optional value (None, or an absent dict key) is <<>>; a present value v
\* is <<v>>.
None == <<>>
Some(v) == <<v>>

Max(a, b) == IF a >= b THEN a ELSE b
Min(a, b) == IF a <= b THEN a ELSE b
Abs(a) == IF a < 0 THEN 0 - a ELSE a

(***************************************************************************)
(* Bounds and input sets                                                   *)
(***************************************************************************)
MaxFrames == 4     \* longest frame source explored
MaxTokens == 4     \* longest free text explored (tokens)
MaxCount == 3      \* largest people / cars count fed to the scorer

\* native frame rates <<num, den>>: negative, zero, fractional and integral
FpsValues == {<<0 - 1, 1>>, <<0, 1>>, <<1, 2>>, <<1, 1>>, <<5, 2>>, <<5, 1>>}
FrameRates == {1, 2}

(***************************************************************************)
(* analyze_video: per-frame counting                                       *)
(***************************************************************************)
ConfThreshold == 50
person_class_ids == {0}
vehicle_class_ids == {2, 3, 5, 7}
weapon_class_ids == {76}

Box(cls, conf) == [cls |-> cls, conf |-> conf]

MultiBoxFrames ==
         { <<Box(0, 90), Box(0, 50)>>,
           <<Box(0, 49), Box(0, 90), Box(2, 49)>>,
           <<Box(2, 60), Box(7, 50)>>,
           <<Box(2, 90), Box(3, 80), Box(5, 70), Box(7, 60)>>,
           <<Box(76, 49), Box(0, 51), Box(3, 50)>>,
           <<Box(0, 70), Box(76, 50), Box(5, 90)>>,
           <<Box(76, 99), Box(76, 49)>> }

\* What model(frame)[0].boxes can be: None, or a list of boxes.
DetectorOutputs ==
    {None, Some(<<>>)}
    \cup {Some(<<Box(c, f)>>) : c \in {0, 1, 2, 3, 5, 7, 76}, f \in {49, 50}}
    \cup {Some(l) : l \in MultiBoxFrames}

LowConfidenceMut(conf) == conf <= ConfThreshold
\* "if conf < 0.5: continue"
LowConfidence(conf) == conf < ConfThreshold

\* "elif cls_id in vehicle_class_ids"
IsVehicle(cls_id) == cls_id \in vehicle_class_ids

\* One iteration of "for box in detections.boxes" on the running counts.
CountBox(acc, box) ==
    IF LowConfidence(box.conf) THEN acc
    ELSE IF box.cls \in person_class_ids
         THEN [acc EXCEPT !.people_count = @ + 1]
    ELSE IF IsVehicle(box.cls)
         THEN [acc EXCEPT !.cars_count = @ + 1]
    ELSE IF box.cls \in weapon_class_ids
         THEN [acc EXCEPT !.has_weapon = TRUE]
    ELSE acc

RECURSIVE CountBoxesFrom(_, _, _)
CountBoxesFrom(boxes, i, acc) ==
    IF i > Len(boxes) THEN acc
    ELSE CountBoxesFrom(boxes, i + 1, CountBox(acc, boxes[i]))

\* people_count, cars_count, has_weapon of one sampled frame
CountDetections(boxes) ==
    LET zero == [people_count |-> 0, cars_count |-> 0, has_weapon |-> FALSE]
    IN IF boxes = None THEN zero ELSE CountBoxesFrom(boxes[1], 1, zero)

\* What the detector reported for a frame, by class label and confidence.
Reported(index, boxes) ==
    LET bs == IF boxes = None THEN <<>> ELSE boxes[1]
        hits(ids) == {i \in DOMAIN bs : bs[i].cls \in ids /\ bs[i].conf >= 50}
    IN [index   |-> index,
        people  |-> Cardinality(hits({0})),
        vehicle |-> Cardinality(hits({2, 3, 5, 7})),
        weapon  |-> hits({76}) # {}]

\* "frame_interval = max(1, int(fps / frame_rate))", fps > 0
FrameInterval(f, rate) == Max(1, f[1] \div (f[2] * rate))

IsSampledMut(count, interval) == count % interval = interval - 1
\* "if frame_count % frame_interval == 0"
IsSampled(count, interval) == count % interval = 0

(***************************************************************************)
(* analyze_video: the state machine                                        *)
(***************************************************************************)
NoClaims == [people |-> None, cars |-> None, weapon_present |-> None]

NoStats == [people |-> None, cars |-> None, weapon_present |-> None,
            frames |-> None]

TextIdle == text = <<>> /\ epc = "idle"
ScoreIdle == spc = "idle" /\ score = 100 /\ details = <<>>

Init ==
    /\ pc = "start"
    /\ exception = "none"
    /\ frame_rate \in FrameRates
    /\ fps = None
    /\ open_handles = 0
    /\ frame_interval = 0
    /\ max_people = 0
    /\ max_cars = 0
    /\ weapon_present = FALSE
    /\ annotated_frames = <<>>
    /\ frame_count = 0
    /\ processed_count = 0
    /\ frames_to_save = <<>>
    /\ video_stats = NoStats
    /\ detector_calls = <<>>
    /\ fallback_calls = 0
    /\ fallback_report = None
    /\ sampled = <<>>
    /\ claims = NoClaims
    /\ TextIdle
    /\ ScoreIdle

Raise(name) ==
    /\ pc' = "raised"
    /\ exception' = name

\* "if not os.path.exists(video_path): raise FileNotFoundError"
NotFound ==
    /\ pc = "start"
    /\ Raise("FileNotFoundError")
    /\ UNCHANGED <<frame_rate, fps, open_handles, frame_interval, max_people,
                   max_cars, weapon_present, annotated_frames, frame_count,
                   processed_count, frames_to_save, video_stats,
                   detector_calls, fallback_calls, fallback_report, sampled,
                   textVars, claims, scoreVars>>

\* "if not cap.isOpened(): raise ValueError": no handle was opened
CannotOpen ==
    /\ pc = "start"
    /\ Raise("ValueError")
    /\ UNCHANGED <<frame_rate, fps, open_handles, frame_interval, max_people,
                   max_cars, weapon_present, annotated_frames, frame_count,
                   processed_count, frames_to_save, video_stats,
                   detector_calls, fallback_calls, fallback_report, sampled,
                   textVars, claims, scoreVars>>

\* "cap = cv2.VideoCapture(video_path)" opened; "fps = cap.get(...)"
OpenVideo ==
    /\ pc = "start"
    /\ \E f \in FpsValues : fps' = f
    /\ open_handles' = open_handles + 1
    /\ pc' = "opened"
    /\ UNCHANGED <<exception, frame_rate, frame_interval, max_people,
                   max_cars, weapon_present, annotated_frames, frame_count,
                   processed_count, frames_to_save, video_stats,
                   detector_calls, fallback_calls, fallback_report, sampled,
                   textVars, claims, scoreVars>>

\* "if fps <= 0: raise ValueError(...)": leaves without cap.release()
InvalidFps ==
    /\ pc = "opened"
    /\ fps[1] <= 0
    /\ Raise("ValueError")
    /\ UNCHANGED <<frame_rate, fps, open_handles, frame_interval, max_people,
                   max_cars, weapon_present, annotated_frames, frame_count,
                   processed_count, frames_to_save, video_stats,
                   detector_calls, fallback_calls, fallback_report, sampled,
                   textVars, claims, scoreVars>>

StartLoopMut ==
    /\ pc = "opened"
    /\ fps[1] > 0
    /\ frame_interval' = FrameInterval(fps, frame_rate)
    /\ max_people' = 0
    /\ max_cars' = 0
    /\ weapon_present' = FALSE
    /\ annotated_frames' = <<>>
    /\ frame_count' = 1
    /\ processed_count' = 0
    /\ frames_to_save' = <<>>
    /\ pc' = "loop"
    /\ UNCHANGED <<exception, frame_rate, fps, open_handles, video_stats,
                   detector_calls, fallback_calls, fallback_report, sampled,
                   textVars, claims, scoreVars>>
\* lines 49-61: the interval and the initial aggregate state
StartLoop ==
    /\ pc = "opened"
    /\ fps[1] > 0
    /\ frame_interval' = FrameInterval(fps, frame_rate)
    /\ max_people' = 0
    /\ max_cars' = 0
    /\ weapon_present' = FALSE
    /\ annotated_frames' = <<>>
    /\ frame_count' = 0
    /\ processed_count' = 0
    /\ frames_to_save' = <<>>
    /\ pc' = "loop"
    /\ UNCHANGED <<exception, frame_rate, fps, open_handles, video_stats,
                   detector_calls, fallback_calls, fallback_report, sampled,
                   textVars, claims, scoreVars>>

\* "ret, frame = cap.read(); if not ret: break" then "cap.release()"
LoopBreak ==
    /\ pc = "loop"
    /\ open_handles' = open_handles - 1
    /\ pc' = "select"
    /\ UNCHANGED <<exception, frame_rate, fps, frame_interval, max_people,
                   max_cars, weapon_present, annotated_frames, frame_count,
                   processed_count, frames_to_save, video_stats,
                   detector_calls, fallback_calls, fallback_report, sampled,
                   textVars, claims, scoreVars>>

\* a frame was read and its index is not sampled: "frame_count += 1"
LoopSkip ==
    /\ pc = "loop"
    /\ frame_count < MaxFrames
    /\ ~IsSampled(frame_count, frame_interval)
    /\ frame_count' = frame_count + 1
    /\ UNCHANGED <<pc, exception, frame_rate, fps, open_handles,
                   frame_interval, max_people, max_cars, weapon_present,
                   annotated_frames, processed_count, frames_to_save,
                   video_stats, detector_calls, fallback_calls, fallback_report,
                   sampled,
                   textVars, claims, scoreVars>>

\* a frame was read, its index is sampled and the detector answered
LoopDetect ==
    /\ pc = "loop"
    /\ frame_count < MaxFrames
    /\ IsSampled(frame_count, frame_interval)
    /\ \E boxes \in DetectorOutputs :
          LET n == CountDetections(boxes) IN
          /\ max_people' = Max(max_people, n.people_count)
          /\ max_cars' = Max(max_cars, n.cars_count)
          /\ weapon_present' = IF n.has_weapon THEN TRUE ELSE weapon_present
          /\ sampled' = Append(sampled, Reported(frame_count, boxes))
    /\ frames_to_save' = Append(frames_to_save, frame_count)
    /\ processed_count' = processed_count + 1
    /\ frame_count' = frame_count + 1
    /\ detector_calls' = Append(detector_calls, frame_count)
    /\ UNCHANGED <<pc, exception, frame_rate, fps, open_handles,
                   frame_interval, annotated_frames, video_stats,
                   fallback_calls, fallback_report,
                   textVars, claims, scoreVars>>

\* a frame was read, its index is sampled and "model(frame)" raised
LoopDetectRaises ==
    /\ pc = "loop"
    /\ frame_count < MaxFrames
    /\ IsSampled(frame_count, frame_interval)
    /\ detector_calls' = Append(detector_calls, frame_count)
    /\ Raise("DetectorFailure")
    /\ UNCHANGED <<frame_rate, fps, open_handles, frame_interval, max_people,
                   max_cars, weapon_present, annotated_frames, frame_count,
                   processed_count, frames_to_save, video_stats,
                   fallback_calls, fallback_report,
                   sampled, textVars, claims, scoreVars>>

SelectFramesMut(saved) ==
    IF Len(saved) <= 3 THEN saved
    ELSE <<saved[1], saved[(Len(saved) \div 3) + 1], saved[Len(saved)]>>
\* lines 129-138: all frames when at most 3, else first, middle, last
SelectFrames(saved) ==
    IF Len(saved) <= 3 THEN saved
    ELSE <<saved[1], saved[(Len(saved) \div 2) + 1], saved[Len(saved)]>>

\* lines 149-154: the returned dict
ReturnStats(agg, frames) ==
    /\ video_stats' = [people |-> Some(agg.max_people),
                       cars |-> Some(agg.max_cars),
                       weapon_present |-> Some(agg.weapon_present),
                       frames |-> Some(frames)]
    /\ annotated_frames' = frames
    /\ pc' = "returned"

Return(frames) ==
    ReturnStats([max_people |-> max_people, max_cars |-> max_cars,
                 weapon_present |-> weapon_present], frames)

\* "if len(frames_to_save) > 0": select and return
SelectAndReturn ==
    /\ pc = "select"
    /\ Len(frames_to_save) > 0
    /\ Return(SelectFrames(frames_to_save))
    /\ UNCHANGED <<exception, frame_rate, fps, open_handles, frame_interval,
                   max_people, max_cars, weapon_present, frame_count,
                   processed_count, frames_to_save, detector_calls,
                   fallback_calls, fallback_report,
                   sampled, textVars, claims, scoreVars>>

\* fallback: re-open, "ret, frame = cap.read()" fails; release; return
FallbackNoFrame ==
    /\ pc = "select"
    /\ Len(frames_to_save) = 0
    /\ open_handles' = (open_handles + 1) - 1
    /\ Return(annotated_frames)
    /\ UNCHANGED <<exception, frame_rate, fps, frame_interval, max_people,
                   max_cars, weapon_present, frame_count, processed_count,
                   frames_to_save, detector_calls, fallback_calls, fallback_report,
                   sampled,
                   textVars, claims, scoreVars>>

FallbackAggregateMut(agg, boxes) ==
    LET n == CountDetections(boxes)
    IN [max_people     |-> Max(agg.max_people, n.people_count),
        max_cars       |-> Max(agg.max_cars, n.cars_count),
        weapon_present |-> agg.weapon_present \/ n.has_weapon]
\* lines 144-146: the fallback frame's detections are plotted, not counted
FallbackAggregate(agg, boxes) == agg

\* fallback: re-open, read the first frame, detect, plot, release; return
FallbackDetect ==
    /\ pc = "select"
    /\ Len(frames_to_save) = 0
    /\ \E boxes \in DetectorOutputs :
          LET agg == FallbackAggregate(
                        [max_people |-> max_people, max_cars |-> max_cars,
                         weapon_present |-> weapon_present], boxes)
          IN /\ max_people' = agg.max_people
             /\ max_cars' = agg.max_cars
             /\ weapon_present' = agg.weapon_present
             /\ fallback_calls' = fallback_calls + 1
             /\ fallback_report' = Some(Reported(0, boxes))
             /\ ReturnStats(agg, Append(annotated_frames, 0))
    /\ open_handles' = (open_handles + 1) - 1
    /\ UNCHANGED <<exception, frame_rate, fps, frame_interval, frame_count,
                   processed_count, frames_to_save, detector_calls, sampled,
                   textVars, claims, scoreVars>>

\* fallback: re-open, read the first frame, "model(frame)" raises
FallbackDetectRaises ==
    /\ pc = "select"
    /\ Len(frames_to_save) = 0
    /\ fallback_calls' = fallback_calls + 1
    /\ open_handles' = open_handles + 1
    /\ Raise("DetectorFailure")
    /\ UNCHANGED <<frame_rate, fps, frame_interval, max_people, max_cars,
                   weapon_present, annotated_frames, frame_count,
                   processed_count, frames_to_save, video_stats,
                   detector_calls, fallback_report, sampled,
                   textVars, claims, scoreVars>>

Next ==
    \/ NotFound
    \/ CannotOpen
    \/ OpenVideo
    \/ InvalidFps
    \/ StartLoop
    \/ LoopBreak
    \/ LoopSkip
    \/ LoopDetect
    \/ LoopDetectRaises
    \/ SelectAndReturn
    \/ FallbackNoFrame
    \/ FallbackDetect
    \/ FallbackDetectRaises

Spec == Init /\ [][Next]_vars

(***************************************************************************)
(* analyze_video: properties                                               *)
(***************************************************************************)
Exited == pc \in {"returned", "raised"}
InLoopOrAfter == pc \in {"loop", "select", "returned"}
    \/ (pc = "raised" /\ exception = "DetectorFailure")

\* C1: on every exit path of analyze_video after the capture was opened
\* (normal return, the non-positive-FPS error, a detector exception in the
\* loop or in the fallback) every opened capture handle has been released:
\* no final state has an open handle.
C1_ReleasedOnEveryExit == Exited => open_handles = 0

\* the largest value of a per-frame report field over the sampled frames
MaxReported(field(_)) ==
    LET S == {field(sampled[i]) : i \in DOMAIN sampled}
    IN IF S = {} THEN 0 ELSE CHOOSE m \in S : \A x \in S : m >= x
PeopleOf(r) == r.people
VehicleOf(r) == r.vehicle
AnyWeaponReported == \E i \in DOMAIN sampled : sampled[i].weapon

AggregateMatchesReports ==
    /\ InLoopOrAfter =>
          /\ max_people = MaxReported(PeopleOf)
          /\ max_cars = MaxReported(VehicleOf)
          /\ weapon_present = AnyWeaponReported
    /\ pc = "returned" =>
          /\ video_stats.people = Some(MaxReported(PeopleOf))
          /\ video_stats.cars = Some(MaxReported(VehicleOf))
          /\ video_stats.weapon_present = Some(AnyWeaponReported)

AggregateMonotone ==
    pc = "loop" =>
       /\ max_people' >= max_people
       /\ max_cars' >= max_cars
       /\ (weapon_present => weapon_present')

FloorQuotient(f, rate) ==
    CHOOSE k \in 0..f[1] :
        /\ k * f[2] * rate <= f[1]
        /\ (k + 1) * f[2] * rate > f[1]

\* frame indices that are multiples of the interval, among 0..last
MultiplesUpTo(interval, last) == {k \in 0..last : k % interval = 0}

\* the last frame index read so far in the loop: frame_count is incremented
\* at the end of an iteration, which a detector exception in the loop skips
ReadSoFar ==
    IF pc = "raised" /\ fallback_calls = 0 THEN frame_count
    ELSE frame_count - 1

\* C10: with interval = max(1, floor(native_fps / target_rate)) the detector
\* is invoked on exactly the frames whose 0-based index is a multiple of
\* interval, once each, in ascending order; other frames never reach the
\* detector or the aggregate state.
C10_SamplesMultiplesOfInterval ==
    InLoopOrAfter =>
       /\ frame_interval = Max(1, FloorQuotient(fps, frame_rate))
       /\ \A i \in DOMAIN detector_calls :
             detector_calls[i] = (i - 1) * frame_interval
       /\ {detector_calls[i] : i \in DOMAIN detector_calls}
             = MultiplesUpTo(frame_interval, ReadSoFar)
       /\ \A i \in DOMAIN sampled : sampled[i].index = (i - 1) * frame_interval
       /\ \A i \in DOMAIN frames_to_save :
             frames_to_save[i] = (i - 1) * frame_interval
       /\ Len(sampled) = processed_count
       /\ Len(frames_to_save) = processed_count

\* C10 witness: 5/2 fps sampled at 1 per second gives interval 2; of four
\* frames read, frames 0 and 2 were detected and frames 1 and 3 skipped.
C10_Witness ==
    /\ pc = "select"
    /\ fps = <<5, 2>> /\ frame_rate = 1
    /\ frame_interval = 2
    /\ frame_count = 4
    /\ detector_calls = <<0, 2>>

(***************************************************************************)
(* score_consistency                                                       *)
(***************************************************************************)
Option(S) == {None} \cup {Some(v) : v \in S}

\* dict.get(key, default)
GetOr(entry, default) == IF entry = None THEN default ELSE entry[1]

ClaimsInputs ==
    [people : Option(0..MaxCount), cars : Option(0..MaxCount),
     weapon_present : Option(BOOLEAN)]

VideoStatsInputs ==
    [people : Option(0..MaxCount), cars : Option(0..MaxCount),
     weapon_present : Option(BOOLEAN), frames : {None}]

VideoIdle ==
    /\ pc = "idle"
    /\ exception = "none"
    /\ frame_rate = 1
    /\ fps = None
    /\ open_handles = 0
    /\ frame_interval = 0
    /\ max_people = 0
    /\ max_cars = 0
    /\ weapon_present = FALSE
    /\ annotated_frames = <<>>
    /\ frame_count = 0
    /\ processed_count = 0
    /\ frames_to_save = <<>>
    /\ detector_calls = <<>>
    /\ fallback_calls = 0
    /\ fallback_report = None
    /\ sampled = <<>>

ScoreInit ==
    /\ VideoIdle
    /\ TextIdle
    /\ claims \in ClaimsInputs
    /\ video_stats \in VideoStatsInputs
    /\ spc = "people"
    /\ score = 100
    /\ details = <<>>

PeopleIsSetMut(c) == c.people # None /\ c.people # Some(0)
\* "if claims.get("people") is not None"
PeopleIsSet(c) == c.people # None

\* "if claims.get("cars") is not None"
CarsIsSet(c) == c.cars # None

\* "if claims.get("weapon_present") is not None"
WeaponIsSet(c) == c.weapon_present # None

NumericOutcomeMut(diff) ==
    IF diff = 0 THEN [result |-> "supported", penalty |-> 0]
    ELSE IF diff <= 2 THEN [result |-> "partial", penalty |-> 10]
    ELSE [result |-> "unsupported", penalty |-> 30]
\* the if / elif / else on diff (lines 44-54 and 71-81)
NumericOutcome(diff) ==
    IF diff = 0 THEN [result |-> "supported", penalty |-> 0]
    ELSE IF diff <= 1 THEN [result |-> "partial", penalty |-> 10]
    ELSE [result |-> "unsupported", penalty |-> 30]

WeaponOutcomeMut(claim_weapon, video_weapon) ==
    IF claim_weapon = video_weapon \/ ~claim_weapon
    THEN [result |-> "supported", penalty |-> 0]
    ELSE [result |-> "unsupported", penalty |-> 40]
\* the if / else on claim_weapon == video_weapon (lines 96-108)
WeaponOutcome(claim_weapon, video_weapon) ==
    IF claim_weapon = video_weapon
    THEN [result |-> "supported", penalty |-> 0]
    ELSE [result |-> "unsupported", penalty |-> 40]

ClampMut(s) == Min(0, Max(100, s))
\* "score = max(0, min(100, score))"
Clamp(s) == Max(0, Min(100, s))

Detail(type, claim_value, video_value, result) ==
    [claim_type |-> type, claim_value |-> claim_value,
     video_value |-> video_value, result |-> result]

\* lines 38-62
ScorePeople ==
    /\ spc = "people"
    /\ IF PeopleIsSet(claims)
       THEN LET claim_people == claims.people[1]
                video_people == GetOr(video_stats.people, 0)
                o == NumericOutcome(Abs(claim_people - video_people))
            IN /\ score' = score - o.penalty
               /\ details' = Append(details,
                     Detail("people", claim_people, video_people, o.result))
       ELSE UNCHANGED <<score, details>>
    /\ spc' = "cars"
    /\ UNCHANGED <<videoVars, video_stats, textVars, claims>>

\* lines 65-89
ScoreCars ==
    /\ spc = "cars"
    /\ IF CarsIsSet(claims)
       THEN LET claim_cars == claims.cars[1]
                video_cars == GetOr(video_stats.cars, 0)
                o == NumericOutcome(Abs(claim_cars - video_cars))
            IN /\ score' = score - o.penalty
               /\ details' = Append(details,
                     Detail("cars", claim_cars, video_cars, o.result))
       ELSE UNCHANGED <<score, details>>
    /\ spc' = "weapon"
    /\ UNCHANGED <<videoVars, video_stats, textVars, claims>>

\* lines 92-116
ScoreWeapon ==
    /\ spc = "weapon"
    /\ IF WeaponIsSet(claims)
       THEN LET claim_weapon == claims.weapon_present[1]
                video_weapon == GetOr(video_stats.weapon_present, FALSE)
                o == WeaponOutcome(claim_weapon, video_weapon)
            IN /\ score' = score - o.penalty
               /\ details' = Append(details,
                     Detail("weapon", claim_weapon, video_weapon, o.result))
       ELSE UNCHANGED <<score, details>>
    /\ spc' = "clamp"
    /\ UNCHANGED <<videoVars, video_stats, textVars, claims>>

\* lines 118-124
ClampAndReturn ==
    /\ spc = "clamp"
    /\ score' = Clamp(score)
    /\ spc' = "done"
    /\ UNCHANGED <<videoVars, video_stats, textVars, claims, details>>

ScoreNext ==
    \/ ScorePeople
    \/ ScoreCars
    \/ ScoreWeapon
    \/ ClampAndReturn

ScoreSpec == ScoreInit /\ [][ScoreNext]_vars

(***************************************************************************)
(* score_consistency: properties                                           *)
(***************************************************************************)
LastDetail == details'[Len(details')]

\* the verdict and score change the rule gives to a numeric claim c against d
NumericRuleHolds(type, c, d) ==
    /\ Len(details') = Len(details) + 1
    /\ LastDetail.claim_type = type
    /\ Abs(c - d) = 0 => LastDetail.result = "supported" /\ score' = score
    /\ Abs(c - d) = 1 => LastDetail.result = "partial" /\ score' = score - 10
    /\ Abs(c - d) >= 2 =>
          LastDetail.result = "unsupported" /\ score' = score - 30

NumericRuleStep ==
    /\ (spc = "people" /\ claims.people # None) =>
          NumericRuleHolds("people", claims.people[1],
                           GetOr(video_stats.people, 0))
    /\ (spc = "cars" /\ claims.cars # None) =>
          NumericRuleHolds("cars", claims.cars[1],
                           GetOr(video_stats.cars, 0))

\* C4: for each set numeric claim (people, cars) with claimed c and video d:
\* |c-d| = 0 gives 'supported' and subtracts 0; |c-d| = 1 gives 'partial'
\* and subtracts exactly 10; |c-d| >= 2 gives 'unsupported' and subtracts
\* exactly 30; the same rule applies to people and cars independently.
C4_NumericPenalties == [][NumericRuleStep]_vars

\* C4 witness: people off by one and cars off by three, both scored.
C4_Witness ==
    /\ spc = "weapon"
    /\ claims.people = Some(2) /\ video_stats.people = Some(3)
    /\ claims.cars = Some(3) /\ video_stats.cars = Some(0)
    /\ Len(details) = 2
    /\ details[1].result = "partial" /\ details[2].result = "unsupported"
    /\ score = 60

WeaponRuleStep ==
    (spc = "weapon" /\ claims.weapon_present # None) =>
       LET w == claims.weapon_present[1]
           v == GetOr(video_stats.weapon_present, FALSE)
       IN /\ Len(details') = Len(details) + 1
          /\ LastDetail.claim_type = "weapon"
          /\ LastDetail.result \in {"supported", "unsupported"}
          /\ (w = v) => LastDetail.result = "supported" /\ score' = score
          /\ (w # v) =>
                LastDetail.result = "unsupported" /\ score' = score - 40

\* C5: for a set weapon claim w and video flag v: w = v gives 'supported'
\* and subtracts 0; w # v in either direction gives 'unsupported' and
\* subtracts exactly 40; the weapon claim is never 'partial'.
C5_WeaponPenalty == [][WeaponRuleStep]_vars

\* C5 witness: the text denies a weapon that the video shows.
C5_Witness ==
    /\ spc = "clamp"
    /\ claims.weapon_present = Some(FALSE)
    /\ video_stats.weapon_present = Some(TRUE)
    /\ details[Len(details)].claim_type = "weapon"
    /\ details[Len(details)].result = "unsupported"
    /\ claims.people = None /\ claims.cars = None
    /\ score = 60

\* the penalty the scoring rule names for a numeric claim
RulePenalty(claim, video) ==
    IF claim = None THEN 0
    ELSE LET diff == Abs(claim[1] - GetOr(video, 0))
         IN IF diff = 0 THEN 0 ELSE IF diff = 1 THEN 10 ELSE 30
RuleWeaponPenalty ==
    IF claims.weapon_present = None THEN 0
    ELSE IF claims.weapon_present[1] = GetOr(video_stats.weapon_present, FALSE)
         THEN 0 ELSE 40
TotalPenalty ==
    RulePenalty(claims.people, video_stats.people)
    + RulePenalty(claims.cars, video_stats.cars)
    + RuleWeaponPenalty
AllResultsAre(r) == \A i \in DOMAIN details : details[i].result = r

\* C6: for every Claims and VideoStats the returned score is an integer in
\* [0,100] equal to clamp(100 - sum of the penalties of the set fields);
\* three unsupported claims (30 + 30 + 40) give exactly 0; when every set
\* claim equals the video value the score is 100 and all details 'supported'.
C6_ScoreClamped ==
    spc = "done" =>
       /\ score \in 0..100
       /\ score = Max(0, Min(100, 100 - TotalPenalty))
       /\ (Len(details) = 3 /\ AllResultsAre("unsupported")) => score = 0
       /\ (/\ claims.people # None => claims.people[1] = GetOr(video_stats.people, 0)
           /\ claims.cars # None => claims.cars[1] = GetOr(video_stats.cars, 0)
           /\ claims.weapon_present # None =>
                 claims.weapon_present[1] = GetOr(video_stats.weapon_present, FALSE))
          => (score = 100 /\ AllResultsAre("supported"))

\* C6 witness: all three claims set and all unsupported.
C6_Witness ==
    /\ spc = "done"
    /\ Len(details) = 3 /\ AllResultsAre("unsupported")
    /\ score = 0

\* the claim types that are set, in the order people, cars, weapon
SetClaimTypes ==
    (IF claims.people # None THEN <<"people">> ELSE <<>>)
    \o (IF claims.cars # None THEN <<"cars">> ELSE <<>>)
    \o (IF claims.weapon_present # None THEN <<"weapon">> ELSE <<>>)

\* C7: details has an entry for a claim type iff that field is set in Claims
\* (a stated 0 or false counts as set, whatever the video side holds), in the
\* order people, cars, weapon, at most 3 entries; with no field set the list
\* is empty and the score is 100.
C7_DetailsIffSet ==
    spc = "done" =>
       /\ [i \in DOMAIN details |-> details[i].claim_type] = SetClaimTypes
       /\ Len(details) <= 3
       /\ claims = NoClaims => (details = <<>> /\ score = 100)

\* C7 witness: a stated zero and a stated false, against a video dict that
\* lacks both keys, still produce their entries.
C7_Witness ==
    /\ spc = "done"
    /\ claims.people = Some(0) /\ claims.cars = None
    /\ claims.weapon_present = Some(FALSE)
    /\ video_stats.people = None /\ video_stats.weapon_present = None
    /\ Len(details) = 2
    /\ details[1].claim_type = "people" /\ details[2].claim_type = "weapon"

(***************************************************************************)
(* extract_claims                                                          *)
(*                                                                         *)
(* The text is held as its whitespace-separated tokens; a token is a run   *)
(* of word characters or a punctuation mark.  On such a text "\b" falls    *)
(* exactly at the two ends of a word token and "\s+" between two adjacent  *)
(* tokens, so "\bA\s+B\b" matches at i iff token i is A and token i+1 is   *)
(* B, and "\bA\s+B" (no closing \b) iff token i is A and token i+1 starts  *)
(* with B.                                                                 *)
(***************************************************************************)
\* str.lower() on the letters A-Z
LowerTable ==
    "A" :> "a" @@ "B" :> "b" @@ "C" :> "c" @@ "D" :> "d" @@ "E" :> "e" @@
    "F" :> "f" @@ "G" :> "g" @@ "H" :> "h" @@ "I" :> "i" @@ "J" :> "j" @@
    "K" :> "k" @@ "L" :> "l" @@ "M" :> "m" @@ "N" :> "n" @@ "O" :> "o" @@
    "P" :> "p" @@ "Q" :> "q" @@ "R" :> "r" @@ "S" :> "s" @@ "T" :> "t" @@
    "U" :> "u" @@ "V" :> "v" @@ "W" :> "w" @@ "X" :> "x" @@ "Y" :> "y" @@
    "Z" :> "z"

LowerChar(c) == IF c \in DOMAIN LowerTable THEN LowerTable[c] ELSE c

RECURSIVE LowerFrom(_, _)
LowerFrom(tok, i) ==
    IF i > Len(tok) THEN ""
    ELSE LowerChar(SubSeq(tok, i, i)) \o LowerFrom(tok, i + 1)

\* "text_lower = text.lower()"
Lower(tokens) == [i \in DOMAIN tokens |-> LowerFrom(tokens[i], 1)]

\* the dict of word_to_number
word_numbers ==
    "zero" :> 0 @@ "one" :> 1 @@ "two" :> 2 @@ "three" :> 3 @@
    "four" :> 4 @@ "five" :> 5 @@ "six" :> 6 @@ "seven" :> 7 @@
    "eight" :> 8 @@ "nine" :> 9 @@ "ten" :> 10 @@ "eleven" :> 11 @@
    "twelve" :> 12 @@ "thirteen" :> 13 @@ "fourteen" :> 14 @@
    "fifteen" :> 15 @@ "sixteen" :> 16 @@ "seventeen" :> 17 @@
    "eighteen" :> 18 @@ "nineteen" :> 19 @@ "twenty" :> 20

\* "word_numbers.get(word.lower())"
word_to_number(word) ==
    LET w == LowerFrom(word, 1)
    IN IF w \in DOMAIN word_numbers THEN Some(word_numbers[w]) ELSE None

DigitValue ==
    "0" :> 0 @@ "1" :> 1 @@ "2" :> 2 @@ "3" :> 3 @@ "4" :> 4 @@ "5" :> 5 @@
    "6" :> 6 @@ "7" :> 7 @@ "8" :> 8 @@ "9" :> 9

\* the token matches "\d+"
IsDigits(tok) ==
    /\ Len(tok) > 0
    /\ \A i \in 1..Len(tok) : SubSeq(tok, i, i) \in DOMAIN DigitValue

RECURSIVE IntFrom(_, _, _)
IntFrom(tok, i, acc) ==
    IF i > Len(tok) THEN acc
    ELSE IntFrom(tok, i + 1, acc * 10 + DigitValue[SubSeq(tok, i, i)])

\* "int(number_str)" on a run of digits
ParseInt(tok) == IntFrom(tok, 1, 0)

\* the words of the first group of the people and car patterns
PatternNumberWords ==
    {"one", "two", "three", "four", "five", "six", "seven", "eight",
     "nine", "ten", "eleven", "twelve", "thirteen", "fourteen", "fifteen",
     "sixteen", "seventeen", "eighteen", "nineteen", "twenty"}

\* group 1 of the patterns: "(one|two|...|twenty|\d+)"
MatchesNumber(tok) == tok \in PatternNumberWords \/ IsDigits(tok)

\* the noun groups of people_patterns and car_patterns, in list order
people_patterns ==
    << {"people", "persons", "person", "men", "women", "individuals"},
       {"person"},
       {"people"} >>
car_patterns ==
    << {"cars", "car", "vehicles", "vehicle", "trucks", "truck",
        "automobiles", "automobile"},
       {"car"},
       {"cars"} >>

\* the start positions at which a number-noun pattern matches
MatchPositions(tokens, nouns) ==
    {i \in 1..(Len(tokens) - 1) :
        MatchesNumber(tokens[i]) /\ tokens[i + 1] \in nouns}

\* "re.search(pattern, text_lower)": the leftmost match, 0 when none
Search(tokens, nouns) ==
    LET P == MatchPositions(tokens, nouns)
    IN IF P = {} THEN 0 ELSE CHOOSE i \in P : \A j \in P : i <= j

\* "num = word_to_number(number_str)", else "int(number_str)"
ResolveNumber(number_str) ==
    IF word_to_number(number_str) # None THEN word_to_number(number_str)
    ELSE Some(ParseInt(number_str))

\* "for pattern in patterns: match = re.search(...); if match: ...; break"
RECURSIVE ScanPatterns(_, _, _)
ScanPatterns(tokens, patterns, k) ==
    IF k > Len(patterns) THEN None
    ELSE LET m == Search(tokens, patterns[k])
         IN IF m # 0 THEN ResolveNumber(tokens[m])
            ELSE ScanPatterns(tokens, patterns, k + 1)

\* the keyword groups of the weapon patterns
weapon_positive_words ==
    {"gun", "guns", "weapon", "weapons", "firearm", "firearms", "knife",
     "knives", "pistol", "pistols", "rifle", "rifles", "handgun", "handguns"}
weapon_negative_words ==
    {"gun", "guns", "weapon", "weapons", "firearm", "firearms", "knife",
     "knives"}
negation_before == {"no", "without", "not", "none"}
negation_after == {"not", "absent", "missing"}

\* tok begins with one of the words: a group with no closing "\b"
StartsWithAny(tok, words) ==
    \E w \in words : Len(tok) >= Len(w) /\ SubSeq(tok, 1, Len(w)) = w

\* "any(re.search(pattern, text_lower) for pattern in weapon_positive_patterns)"
has_positive(tokens) ==
    \E i \in DOMAIN tokens : tokens[i] \in weapon_positive_words

\* "any(re.search(pattern, text_lower) for pattern in weapon_negative_patterns)"
has_negative(tokens) ==
    \E i \in 1..(Len(tokens) - 1) :
       \/ /\ tokens[i] \in negation_before
          /\ StartsWithAny(tokens[i + 1], weapon_negative_words)
       \/ /\ tokens[i] \in weapon_negative_words
          /\ StartsWithAny(tokens[i + 1], negation_after)

\* lines 120-124
WeaponClaim(tokens) ==
    IF has_positive(tokens) /\ ~has_negative(tokens) THEN Some(TRUE)
    ELSE IF has_negative(tokens) THEN Some(FALSE)
    ELSE None

(***************************************************************************)
(* extract_claims: the state machine                                       *)
(***************************************************************************)
\* tokens of the free texts explored
Vocabulary ==
    {"zero", "two", "Three", "12", "single", "people", "men", "cars",
     "No", "gun", "pistol", "absent", "gunman", "."}

\* the token sequences of length at most n
SeqsUpTo(S, n) == UNION {[1..k -> S] : k \in 0..n}

NumberTokens == DOMAIN word_numbers \cup {"0", "7", "007", "10", "21", "365"}
PeopleNounTokens == people_patterns[1] \cup {"person", "people"}
CarNounTokens == car_patterns[1]

\* every number token before every noun, every negation around every keyword
TwoTokenTexts ==
    {<<q, n>> : q \in NumberTokens, n \in PeopleNounTokens \cup CarNounTokens}
    \cup {<<a, w>> : a \in negation_before, w \in weapon_positive_words}
    \cup {<<w, b>> : w \in weapon_positive_words, b \in negation_after}
    \cup {<<a, w>> : a \in negation_before \cup weapon_negative_words,
                     w \in {"gunpowder", "nothing", "notes", "missingly"}}

Texts == SeqsUpTo(Vocabulary, MaxTokens) \cup TwoTokenTexts

ExtractInit ==
    /\ VideoIdle
    /\ video_stats = NoStats
    /\ ScoreIdle
    /\ text \in Texts
    /\ claims = NoClaims
    /\ epc = "start"

\* "if not text or not text.strip(): return {...all None...}"
ExtractEmpty ==
    /\ epc = "start"
    /\ text = <<>>
    /\ claims' = NoClaims
    /\ epc' = "done"
    /\ UNCHANGED <<videoVars, video_stats, text, scoreVars>>

\* lines 52-81
ExtractPeople ==
    /\ epc = "start"
    /\ text # <<>>
    /\ claims' = [NoClaims EXCEPT
                    !.people = ScanPatterns(Lower(text), people_patterns, 1)]
    /\ epc' = "cars"
    /\ UNCHANGED <<videoVars, video_stats, text, scoreVars>>

\* lines 83-103
ExtractCars ==
    /\ epc = "cars"
    /\ claims' = [claims EXCEPT
                    !.cars = ScanPatterns(Lower(text), car_patterns, 1)]
    /\ epc' = "weapon"
    /\ UNCHANGED <<videoVars, video_stats, text, scoreVars>>

\* lines 105-126
ExtractWeapon ==
    /\ epc = "weapon"
    /\ claims' = [claims EXCEPT !.weapon_present = WeaponClaim(Lower(text))]
    /\ epc' = "done"
    /\ UNCHANGED <<videoVars, video_stats, text, scoreVars>>

ExtractNext ==
    \/ ExtractEmpty
    \/ ExtractPeople
    \/ ExtractCars
    \/ ExtractWeapon

ExtractSpec == ExtractInit /\ [][ExtractNext]_vars

(***************************************************************************)
(* extract_claims: properties                                              *)
(***************************************************************************)
\* the grammar as the specification words it
QuantityWordList ==
    <<"zero", "one", "two", "three", "four", "five", "six", "seven", "eight",
      "nine", "ten", "eleven", "twelve", "thirteen", "fourteen", "fifteen",
      "sixteen", "seventeen", "eighteen", "nineteen", "twenty">>
IsQuantityWord(tok) == \E k \in DOMAIN QuantityWordList : QuantityWordList[k] = tok
IsDigitRun(tok) ==
    /\ tok # ""
    /\ \A i \in 1..Len(tok) :
          SubSeq(tok, i, i) \in {"0", "1", "2", "3", "4", "5", "6", "7", "8", "9"}
IsQuantityToken(tok) == IsQuantityWord(tok) \/ IsDigitRun(tok)
DigitOf(c) == CHOOSE d \in 0..9 : ToString(d) = c
RECURSIVE Decimal(_)
Decimal(tok) ==
    IF tok = "" THEN 0
    ELSE 10 * Decimal(SubSeq(tok, 1, Len(tok) - 1))
         + DigitOf(SubSeq(tok, Len(tok), Len(tok)))
QuantityValue(tok) ==
    IF IsQuantityWord(tok)
    THEN (CHOOSE k \in DOMAIN QuantityWordList : QuantityWordList[k] = tok) - 1
    ELSE Decimal(tok)

PeopleSynonyms == {"person", "people", "persons", "men", "women", "individuals"}
CarSynonyms == {"car", "cars", "vehicle", "vehicles", "truck", "trucks",
                "automobile", "automobiles"}
WeaponKeywords ==
    {"gun", "guns", "weapon", "weapons", "firearm", "firearms", "knife",
     "knives", "pistol", "pistols", "rifle", "rifles", "handgun", "handguns"}

\* positions of the quantity-noun mentions of a field in the lower-cased text
Mentions(nouns) ==
    LET t == Lower(text)
    IN {i \in 1..(Len(t) - 1) : IsQuantityToken(t[i]) /\ t[i + 1] \in nouns}
FirstMention(nouns) == CHOOSE i \in Mentions(nouns) : \A j \in Mentions(nouns) : i <= j
MentionValue(i) == QuantityValue(Lower(text)[i])

NegationMatches ==
    LET t == Lower(text)
    IN \E i \in 1..(Len(t) - 1) :
          \/ t[i] \in {"no", "without", "not", "none"} /\ t[i + 1] \in WeaponKeywords
          \/ t[i] \in WeaponKeywords /\ t[i + 1] \in {"not", "absent", "missing"}
KeywordAppears ==
    LET t == Lower(text) IN \E i \in DOMAIN t : t[i] \in WeaponKeywords

\* C2: weapon_present is false if a negation pattern matches (no / without /
\* not / none immediately followed by any of the 14 weapon keywords as a
\* whole token, or a keyword immediately followed by not / absent /
\* missing); otherwise true if any of the 14 keywords appears as a token;
\* otherwise unset.  Negation wins over a positive keyword elsewhere.
C2_WeaponNegationWins ==
    epc = "done" =>
       claims.weapon_present =
          IF NegationMatches THEN Some(FALSE)
          ELSE IF KeywordAppears THEN Some(TRUE)
          ELSE None

SoleMentionRule(nouns, extracted) ==
    /\ Cardinality(Mentions(nouns)) = 1 =>
          extracted = Some(MentionValue(FirstMention(nouns)))
    /\ Mentions(nouns) = {} => extracted = None

\* C3: a text whose only quantity-noun mention for people (cars) is 'q n',
\* q one of the words zero..twenty or a run of digits, yields people (cars)
\* equal to the value of q under the word table or base-10 parsing; 'zero
\* people' yields 0, which is set; a noun not immediately preceded by a
\* quantity token leaves the field unset.
C3_QuantityNounValue ==
    epc = "done" =>
       /\ SoleMentionRule(PeopleSynonyms, claims.people)
       /\ SoleMentionRule(CarSynonyms, claims.cars)

FirstMentionRule(nouns, extracted) ==
    Cardinality(Mentions(nouns)) >= 2 =>
       extracted = Some(MentionValue(FirstMention(nouns)))

\* C8: when a text has several quantity-noun mentions for the same numeric
\* field, the extracted value is that of the first occurrence in the text;
\* later mentions neither change nor add to it.
C8_FirstMentionWins ==
    epc = "done" =>
       /\ FirstMentionRule(PeopleSynonyms, claims.people)
       /\ FirstMentionRule(CarSynonyms, claims.cars)

(***************************************************************************)
(* analyze_video: the frame selection after long loops                     *)
(*                                                                         *)
(* SelectSpec starts where the loop has ended and the capture has been     *)
(* released, for every number of saved frames up to MaxSaved: the state    *)
(* the loop leaves after reading frame_count frames on each of which the   *)
(* detector gave the same answer.  Its steps are those of Spec.            *)
(***************************************************************************)
MaxSaved == 10     \* most sampled frames explored by SelectSpec

\* 0, interval, 2 * interval, ...: the n frame indices the loop samples
SampledIndices(n, interval) == [i \in 1..n |-> (i - 1) * interval]

AfterLoopInit ==
    /\ pc = "select"
    /\ exception = "none"
    /\ frame_rate \in FrameRates
    /\ fps \in {f \in FpsValues : f[1] > 0}
    /\ frame_interval = FrameInterval(fps, frame_rate)
    /\ open_handles = 0
    /\ annotated_frames = <<>>
    /\ video_stats = NoStats
    /\ fallback_calls = 0
    /\ fallback_report = None
    /\ \E n \in 0..MaxSaved, boxes \in DetectorOutputs :
          LET counts == CountDetections(boxes) IN
          /\ processed_count = n
          /\ frames_to_save = SampledIndices(n, frame_interval)
          /\ detector_calls = SampledIndices(n, frame_interval)
          /\ sampled = [i \in 1..n |->
                           Reported((i - 1) * frame_interval, boxes)]
          /\ frame_count \in
                IF n = 0 THEN {0}
                ELSE ((n - 1) * frame_interval + 1)..(n * frame_interval)
          /\ max_people = IF n = 0 THEN 0 ELSE counts.people_count
          /\ max_cars = IF n = 0 THEN 0 ELSE counts.cars_count
          /\ weapon_present = IF n = 0 THEN FALSE ELSE counts.has_weapon
    /\ claims = NoClaims
    /\ TextIdle
    /\ ScoreIdle

SelectNext ==
    \/ SelectAndReturn
    \/ FallbackNoFrame
    \/ FallbackDetect
    \/ FallbackDetectRaises

SelectSpec == AfterLoopInit /\ [][SelectNext]_vars

\* floor(n / 2), without division
HalfOf(n) == CHOOSE m \in 0..n : 2 * m <= n /\ n < 2 * m + 2

\* C11: with n >= 1 sampled frames saved in processing order the returned
\* representative frames are all n frames in order when n <= 3, and exactly
\* the frames at positions 0, n div 2 and n-1, in that order, when n > 3;
\* never more than 3 frames; for n = 10 the positions are 0, 5, 9.
C11_RepresentativeFrames ==
    (pc = "returned" /\ Len(frames_to_save) >= 1) =>
       LET n == Len(frames_to_save)
           at(pos) == frames_to_save[pos + 1]
           out == video_stats.frames[1]
       IN /\ video_stats.frames # None
          /\ out = annotated_frames
          /\ Len(out) <= 3
          /\ n <= 3 => out = frames_to_save
          /\ n > 3 => out = <<at(0), at(HalfOf(n)), at(n - 1)>>
          /\ n = 10 => out = <<at(0), at(5), at(9)>>

\* C11 witness: ten frames sampled every second frame (0, 2, ..., 18); the
\* frames at positions 0, 5 and 9 are returned.
C11_Witness ==
    /\ pc = "returned"
    /\ frame_interval = 2
    /\ Len(frames_to_save) = 10
    /\ video_stats.frames = Some(<<0, 10, 18>>)

(***************************************************************************)
(* analyze_video: the zero-sampled-frames fallback                         *)
(***************************************************************************)
ReturnedFromFallback == pc = "returned" /\ Len(frames_to_save) = 0

StatsAreZero ==
    /\ video_stats.people = Some(0)
    /\ video_stats.cars = Some(0)
    /\ video_stats.weapon_present = Some(FALSE)

\* C12 as stated: when no frame was sampled in the main loop, the fallback
\* re-opens the source, reads the first raw frame, runs the detector on it
\* exactly once and returns it as the sole representative frame, with
\* people = 0, cars = 0, weapon_present = false whatever was detected.
C12_FallbackReturnsFirstFrame ==
    ReturnedFromFallback =>
       /\ fallback_calls = 1
       /\ video_stats.frames = Some(<<0>>)
       /\ StatsAreZero

FallbackOutcome ==
    /\ fallback_calls <= 1
    /\ ReturnedFromFallback =>
          /\ StatsAreZero
          /\ max_people = 0 /\ max_cars = 0 /\ weapon_present = FALSE
          /\ open_handles = 0
          /\ \/ /\ fallback_report # None
                /\ fallback_calls = 1
                /\ video_stats.frames = Some(<<0>>)
             \/ /\ fallback_report = None
                /\ fallback_calls = 0
                /\ video_stats.frames = Some(<<>>)

FallbackKeepsAggregate ==
    (pc = "select" /\ Len(frames_to_save) = 0) =>
       /\ max_people' = max_people
       /\ max_cars' = max_cars
       /\ weapon_present' = weapon_present
       /\ detector_calls' = detector_calls
       /\ sampled' = sampled

\* C12 amended: in the fallback the detector runs once and the first frame
\* is the sole representative frame only if the re-opened source yields a
\* frame; if its read fails the detector is not run and no frame is
\* returned.  Either way the aggregate state is left unchanged and the
\* returned stats are 0, 0, false whatever the detector reports.
C12_FallbackDisplayOnly == [](FallbackOutcome) /\ [][FallbackKeepsAggregate]_vars

\* C12 witness: the fallback frame shows a person, a bus and a knife, and
\* the returned stats are still 0, 0, false with that frame returned.
C12_Witness ==
    /\ ReturnedFromFallback
    /\ fallback_report # None
    /\ fallback_report[1].people = 1
    /\ fallback_report[1].vehicle = 1
    /\ fallback_report[1].weapon
    /\ StatsAreZero
    /\ video_stats.frames = Some(<<0>>)

\* a frame was read from the source in the main loop
SourceYieldedFrame ==
    frame_count >= 1 \/ (pc = "raised" /\ detector_calls # <<>>)

FallbackTaken ==
    \/ fallback_calls > 0
    \/ fallback_report # None
    \/ ReturnedFromFallback

\* C13: for every source that yields at least one frame and every interval
\* >= 1, also one larger than the frame count, frame 0 is sampled: the saved
\* list and the returned representative list are non-empty and the fallback
\* is not taken; the fallback is reached only when the very first read fails.
C13_FrameZeroAlwaysSampled ==
    /\ SourceYieldedFrame =>
          /\ detector_calls # <<>> /\ detector_calls[1] = 0
          /\ ~FallbackTaken
          /\ pc \in {"loop", "select", "returned"} =>
                /\ frames_to_save # <<>>
                /\ frames_to_save[1] = 0
          /\ pc = "returned" =>
                /\ video_stats.frames # Some(<<>>)
                /\ video_stats.frames[1][1] = 0
    /\ (FallbackTaken \/ (pc = "select" /\ frames_to_save = <<>>)) =>
          /\ frame_count = 0
          /\ detector_calls = <<>>

\* C13 witness: interval 5 on a source of two frames; frame 0 alone is
\* sampled and returned, without the fallback.
C13_Witness ==
    /\ pc = "returned"
    /\ frame_interval = 5
    /\ frame_count = 2
    /\ frames_to_save = <<0>>
    /\ video_stats.frames = Some(<<0>>)
    /\ fallback_calls = 0

====
